---- MODULE Spec2Model ----
(***************************************************************************)
(* Model of src/app.py: the in-memory expiring store (MemoryStorage), the  *)
(* bot lifecycle manager (BotManager) with its two daemons, and the        *)
(* request handlers that drive them.                                       *)
(*                                                                         *)
(* Strings are TLA+ strings; store keys are built and matched character by *)
(* character exactly as the Python code does (f-strings, `pattern in k`).  *)
(* time.time() is the integer variable now.  None is modelled by the       *)
(* string "None"; a ttl of None is the integer 0 (both are falsy for the   *)
(* `if ttl:` test of MemoryStorage.set).                                   *)
(***************************************************************************)
EXTENDS Integers, Sequences, FiniteSets, TLC

VARIABLES
    data,       \* MemoryStorage.data   : key -> value
    expiry,     \* MemoryStorage.expiry : key -> expiry instant
    stats,      \* MemoryStorage.stats: its field bots_created (the gauges
                \* bots_active, memory_usage and last_cleanup are only written)
    bots,       \* BotManager.bots      : token -> instance id
    bot_tasks,  \* BotManager.bot_tasks : token -> task id
    tasks,      \* the run_bot tasks ever scheduled: id -> [token, pc, cancel]
    live,       \* instances that were started and whose stop() has not succeeded
    now,        \* time.time()
    thr,        \* threads between a read and the write that uses it (incr, or a
                \* last_active stamp): id -> [pc, val, ret]
    due,        \* the instants at which the sleeping daemon threads wake: [ping, reap]
    written,    \* history: for each key the last write made through set/delete
    last        \* history: the last operation, its inputs and what it returned

vars == <<data, expiry, stats, bots, bot_tasks, tasks, live, now, thr, due, written, last>>

(***************************************************************************)
(* Bounds of the model.                                                    *)
(***************************************************************************)
\* number of start_bot calls in a behaviour
MaxStarts == 2
\* the clock starts here (stands for the epoch seconds of process start)
StartTime == 4000
\* the clock runs for this long after StartTime
MaxElapsed == 3601
\* the store-level specification lets the clock run this long
MaxStoreElapsed == 3
\* number of threads calling incr concurrently
NumThreads == 3
\* the store-level specification stops incrementing a counter at this value
MaxCount == 3
\* the specification of the periodic daemons lets the clock run this long
MaxIdleElapsed == 3690
\* the specification of the last_active writers lets the clock run this long
MaxStampElapsed == 2

(***************************************************************************)
(* Program constants.                                                      *)
(***************************************************************************)
\* cleanup_memory: cutoff = time.time() - 3600
InactivityThreshold == 3600
\* webhook_handler: storage.set(..., ttl=300)
LastUpdateTTL == 300
\* cleanup_worker: time.sleep(30)
ReaperPeriod == 30
\* keep_alive_worker: time.sleep(15)
PingerPeriod == 15

None == "None"

\* the tokens of the model; a Telegram token always holds a colon (upload_bot)
Tokens == {"1:a", "2:b"}
\* the bot code uploaded
Codes == {"pass"}

(***************************************************************************)
(* Python helpers.                                                         *)
(***************************************************************************)
\* Python `p in k` on strings: p is a contiguous substring of k
StrIn(p, k) ==
    \E i \in 1..(Len(k) - Len(p) + 1) : SubSeq(k, i, i + Len(p) - 1) = p

\* d[k] = v on a dict
DictPut(d, k, v) == [x \in (DOMAIN d) \cup {k} |-> IF x = k THEN v ELSE d[x]]

\* d.pop(k, None) on a dict
DictPop(d, k) == [x \in (DOMAIN d) \ {k} |-> d[x]]

EmptyDict == [x \in {} |-> 0]

(***************************************************************************)
(* MemoryStorage.  A store value st is [data, expiry]; t is time.time().   *)
(***************************************************************************)
storage_set(st, key, value, ttl, t) ==
    [data   |-> DictPut(st.data, key, value),
     expiry |-> IF ttl # 0 THEN DictPut(st.expiry, key, t + ttl) ELSE st.expiry]

storage_delete(st, key) ==
    [data |-> DictPop(st.data, key), expiry |-> DictPop(st.expiry, key)]

\* storage_get without the delete of line 55: the expired key stays
storage_get_keeps(st, key, default, t) ==
    IF key \in DOMAIN st.expiry /\ t > st.expiry[key]
    THEN [st |-> st, val |-> default]
    ELSE [st |-> st,
          val |-> IF key \in DOMAIN st.data THEN st.data[key] ELSE default]

\* get returns the value and the store it leaves behind
storage_get(st, key, default, t) ==
    IF key \in DOMAIN st.expiry /\ t > st.expiry[key]
    THEN [st |-> storage_delete(st, key), val |-> default]
    ELSE [st |-> st,
          val |-> IF key \in DOMAIN st.data THEN st.data[key] ELSE default]

\* keys returns a list in dict order; the model keeps the set of its elements
storage_keys(st, pattern) ==
    IF pattern = "*" THEN DOMAIN st.data
    ELSE {k \in DOMAIN st.data : StrIn(pattern, k)}

storage_exists(st, key) == key \in DOMAIN st.data

\* the two halves of incr: the read (val = int(self.get(key, 0))) ...
incr_read(st, key, t) == storage_get(st, key, 0, t)
\* ... and the write (self.set(key, val + 1); return val + 1)
incr_write(st, key, val, t) == storage_set(st, key, val + 1, 0, t)

storage_incr(st, key, t) ==
    LET r == incr_read(st, key, t)
    IN  [st |-> incr_write(r.st, key, r.val, t), val |-> r.val + 1]

RECURSIVE DeleteAll(_, _)
DeleteAll(st, ks) ==
    IF ks = {} THEN st
    ELSE LET k == CHOOSE x \in ks : TRUE
         IN  DeleteAll(storage_delete(st, k), ks \ {k})

ExpiredKeys(st, t) == {k \in DOMAIN st.expiry : t > st.expiry[k]}

\* cleanup_expired returns the store and the number of keys removed
cleanup_expired(st, t) ==
    [st |-> DeleteAll(st, ExpiredKeys(st, t)),
     val |-> Cardinality(ExpiredKeys(st, t))]

Store == [data |-> data, expiry |-> expiry]

(***************************************************************************)
(* Specification SpecStore: one client drives the MemoryStorage API while  *)
(* the clock advances.  written remembers, for each key, the value and the *)
(* expiry instant (0: none) given by the last set/incr on it, until the    *)
(* key is deleted or an expired key is removed by get/cleanup_expired.     *)
(***************************************************************************)
StoreKeys == {"k", "kc"}
StoreVals == {1, 2}
TTLs == {0, 1, 2}
GetDefaults == {-1, 0}
Patterns == {"*", "k", "c", "k*"}

Idle == [pc |-> "idle", val |-> 0, ret |-> 0]

\* what written holds for key when an operation is called (exp -1: nothing)
Was(key) == IF key \in DOMAIN written THEN written[key] ELSE [v |-> 0, exp |-> -1]

InitManager ==
    /\ stats = [bots_created |-> 0]
    /\ bots = EmptyDict
    /\ bot_tasks = EmptyDict
    /\ tasks = <<>>
    /\ live = {}

Init ==
    /\ data = EmptyDict
    /\ expiry = EmptyDict
    /\ InitManager
    /\ now = StartTime
    /\ thr = [i \in 1..NumThreads |-> Idle]
    /\ due = [ping |-> StartTime, reap |-> StartTime]
    /\ written = EmptyDict
    /\ last = [op |-> "init"]

ManagerUnchanged == UNCHANGED <<bots, bot_tasks, tasks, live, thr, due>>

Set(key, value, ttl) ==
    LET st == storage_set(Store, key, value, ttl, now)
    IN  /\ data' = st.data
        /\ expiry' = st.expiry
        /\ written' = DictPut(written, key,
                         [v |-> value, exp |-> IF ttl # 0 THEN now + ttl ELSE 0])
        /\ last' = [op |-> "set", key |-> key, ret |-> TRUE]
        /\ UNCHANGED <<stats, now>>
        /\ ManagerUnchanged

Get(key, default) ==
    LET r == storage_get(Store, key, default, now)
    IN  /\ data' = r.st.data
        /\ expiry' = r.st.expiry
        /\ written' = IF key \in DOMAIN written /\ written[key].exp # 0
                         /\ now > written[key].exp
                      THEN DictPop(written, key) ELSE written
        /\ last' = [op |-> "get", key |-> key, default |-> default,
                    was |-> Was(key), ret |-> r.val]
        /\ UNCHANGED <<stats, now>>
        /\ ManagerUnchanged

Delete(key) ==
    LET st == storage_delete(Store, key)
    IN  /\ data' = st.data
        /\ expiry' = st.expiry
        /\ written' = DictPop(written, key)
        /\ last' = [op |-> "delete", key |-> key, ret |-> TRUE]
        /\ UNCHANGED <<stats, now>>
        /\ ManagerUnchanged

Keys(pattern) ==
    /\ last' = [op |-> "keys", pattern |-> pattern,
                ret |-> storage_keys(Store, pattern)]
    /\ UNCHANGED <<data, expiry, written, stats, now>>
    /\ ManagerUnchanged

Exists(key) ==
    /\ last' = [op |-> "exists", key |-> key, was |-> Was(key),
                ret |-> storage_exists(Store, key)]
    /\ UNCHANGED <<data, expiry, written, stats, now>>
    /\ ManagerUnchanged

Incr(key) ==
    LET r == storage_incr(Store, key, now)
    IN  /\ r.val <= MaxCount
        /\ data' = r.st.data
        /\ expiry' = r.st.expiry
        /\ written' = DictPut(written, key, [v |-> r.val, exp |-> 0])
        /\ last' = [op |-> "incr", key |-> key, ret |-> r.val]
        /\ UNCHANGED <<stats, now>>
        /\ ManagerUnchanged

CleanupExpired ==
    LET r == cleanup_expired(Store, now)
    IN  /\ data' = r.st.data
        /\ expiry' = r.st.expiry
        /\ UNCHANGED stats
        /\ written' = [k \in {x \in DOMAIN written :
                                  ~(written[x].exp # 0 /\ now > written[x].exp)}
                          |-> written[k]]
        /\ last' = [op |-> "cleanup_expired", ret |-> r.val]
        /\ UNCHANGED now
        /\ ManagerUnchanged

StoreTick ==
    /\ now < StartTime + MaxStoreElapsed
    /\ now' = now + 1
    /\ last' = [op |-> "tick"]
    /\ UNCHANGED <<data, expiry, written, stats>>
    /\ ManagerUnchanged

NextStore ==
    \/ \E k \in StoreKeys, v \in StoreVals, ttl \in TTLs : Set(k, v, ttl)
    \/ \E k \in StoreKeys, d \in GetDefaults : Get(k, d)
    \/ \E k \in StoreKeys : Delete(k)
    \/ \E p \in Patterns : Keys(p)
    \/ \E k \in StoreKeys : Exists(k)
    \/ \E k \in StoreKeys : Incr(k)
    \/ CleanupExpired
    \/ StoreTick

SpecStore == Init /\ [][NextStore]_vars

(***************************************************************************)
(* Specification SpecIncr: NumThreads threads each call incr("c") once on  *)
(* a counter that starts absent.  The interpreter may switch threads       *)
(* between the get and the set inside incr (lines 78 and 79).              *)
(***************************************************************************)
CounterKey == "c"

IncrRead(i) ==
    LET r == incr_read(Store, CounterKey, now)
    IN  /\ thr[i].pc = "idle"
        /\ thr' = [thr EXCEPT ![i] = [pc |-> "read", val |-> r.val, ret |-> 0]]
        /\ data' = r.st.data
        /\ expiry' = r.st.expiry
        /\ last' = [op |-> "incr_read", thread |-> i]
        /\ UNCHANGED <<stats, bots, bot_tasks, tasks, live, now, due, written>>

IncrWrite(i) ==
    LET st == incr_write(Store, CounterKey, thr[i].val, now)
    IN  /\ thr[i].pc = "read"
        /\ thr' = [thr EXCEPT ![i] = [pc |-> "done", val |-> thr[i].val,
                                      ret |-> thr[i].val + 1]]
        /\ data' = st.data
        /\ expiry' = st.expiry
        /\ last' = [op |-> "incr_write", thread |-> i]
        /\ UNCHANGED <<stats, bots, bot_tasks, tasks, live, now, due, written>>

NextIncr ==
    \/ \E i \in 1..NumThreads : IncrRead(i)
    \/ \E i \in 1..NumThreads : IncrWrite(i)

SpecIncr == Init /\ [][NextIncr]_vars

(***************************************************************************)
(* Claims about MemoryStorage.                                             *)
(***************************************************************************)

\* C7: when all NumThreads concurrent incr("c") calls have returned, the
\* stored counter equals NumThreads and the calls returned distinct values.
C7_AtomicCounter ==
    (\A i \in 1..NumThreads : thr[i].pc = "done") =>
        /\ CounterKey \in DOMAIN data
        /\ data[CounterKey] = NumThreads
        /\ \A i, j \in 1..NumThreads : i # j => thr[i].ret # thr[j].ret

\* C8: a key written with a ttl whose expiry instant has passed, and not yet
\* removed by get or cleanup_expired, is reported absent by exists and is
\* not listed by keys.
C8_LogicalExpiry ==
    /\ (last.op = "exists" /\ last.was.exp > 0 /\ now > last.was.exp)
           => last.ret = FALSE
    /\ last.op = "keys" =>
           \A k \in DOMAIN written :
               (written[k].exp > 0 /\ now > written[k].exp) => k \notin last.ret

\* C9: a get of a key last written by set(k, v, ttl) with ttl >= 1 returns
\* the default and removes the key from data and expiry (so that exists(k)
\* is false) when the clock is past the expiry instant, and returns v when
\* it is not.
C9_ExpiryOnRead ==
    (last.op = "get" /\ last.was.exp > 0) =>
        IF now > last.was.exp
        THEN /\ last.ret = last.default
             /\ last.key \notin DOMAIN data
             /\ last.key \notin DOMAIN expiry
             /\ ~storage_exists(Store, last.key)
        ELSE last.ret = last.was.v

\* C9 witness: a get has just read a key whose ttl had run out
C9_Witness ==
    /\ last.op = "get"
    /\ last.was.exp > 0
    /\ now > last.was.exp
    /\ last.ret = last.default

(***************************************************************************)
(* BotManager.  A manager value m is [data, expiry, bots, bot_tasks,       *)
(* tasks, live].  A task is [token, pc, cancel, ret]: pc is "launching"    *)
(* while run_bot awaits create_bot_instance, "looping" in its keep-alive   *)
(* loop, then "done" (returned, or ended by cancellation); cancel says     *)
(* that Task.cancel() was called on it and is pending; ret is what the     *)
(* start_bot call that scheduled it returned.  The instance created by     *)
(* task n is instance n.                                                   *)
(***************************************************************************)
BotKey(token, field) == "bot:" \o token \o ":" \o field

Mgr == [data |-> data, expiry |-> expiry, bots |-> bots,
        bot_tasks |-> bot_tasks, tasks |-> tasks, live |-> live]

StoreOf(m) == [data |-> m.data, expiry |-> m.expiry]

WithStore(m, st) == [m EXCEPT !.data = st.data, !.expiry = st.expiry]

\* storage.set(key, value) on the store of m
MSet(m, key, value, ttl, t) == WithStore(m, storage_set(StoreOf(m), key, value, ttl, t))

\* what the two asyncio.run calls of stop_bot can do: both return, the first
\* (instance.stop()) raises, or the second (instance.shutdown()) raises
Teardowns == {"ok", "stop_raises", "shutdown_raises"}

\* Task.cancel() on task n: a request, which a finished task ignores
CancelTask(ts, n) ==
    IF ts[n].pc \in {"launching", "looping"}
    THEN [ts EXCEPT ![n].cancel = TRUE] ELSE ts

\* stop_bot whose except branch returns without writing the status
stop_bot_bare_except(m, token, td, t) ==
    IF token \in DOMAIN m.bots
    THEN IF td = "ok"
         THEN LET m1 == [m EXCEPT
                           !.live = @ \ {m.bots[token]},
                           !.bots = DictPop(@, token),
                           !.tasks = IF token \in DOMAIN m.bot_tasks
                                     THEN CancelTask(@, m.bot_tasks[token]) ELSE @,
                           !.bot_tasks = DictPop(@, token)]
              IN  [m |-> MSet(m1, BotKey(token, "status"), "stopped", 0, t),
                   ret |-> TRUE]
         ELSE [m |-> [m EXCEPT !.live = IF td = "shutdown_raises"
                                        THEN @ \ {m.bots[token]} ELSE @],
               ret |-> TRUE]
    ELSE [m |-> MSet(m, BotKey(token, "status"), "stopped", 0, t), ret |-> TRUE]

\* stop_bot returns the manager it leaves and its return value
stop_bot(m, token, td, t) ==
    IF token \in DOMAIN m.bots
    THEN IF td = "ok"
         THEN LET m1 == [m EXCEPT
                           !.live = @ \ {m.bots[token]},
                           !.bots = DictPop(@, token),
                           !.tasks = IF token \in DOMAIN m.bot_tasks
                                     THEN CancelTask(@, m.bot_tasks[token]) ELSE @,
                           !.bot_tasks = DictPop(@, token)]
              IN  [m |-> MSet(m1, BotKey(token, "status"), "stopped", 0, t),
                   ret |-> TRUE]
         ELSE \* the except branch: bots and bot_tasks keep their entries
              LET m1 == [m EXCEPT
                           !.live = IF td = "shutdown_raises"
                                    THEN @ \ {m.bots[token]} ELSE @]
              IN  [m |-> MSet(m1, BotKey(token, "status"), "stopped", 0, t),
                   ret |-> TRUE]
    ELSE [m |-> MSet(m, BotKey(token, "status"), "stopped", 0, t), ret |-> TRUE]

\* what scheduling the task can do (lines 258-270): succeed, or raise (no
\* event loop or thread can be created)
Schedulings == {"ok", "raises"}

start_bot(m, token, code, td, sched, t) ==
    LET m0 == IF token \in DOMAIN m.bots THEN stop_bot(m, token, td, t).m ELSE m
        m1 == MSet(m0, BotKey(token, "code"), code, 0, t)
        m2 == MSet(m1, BotKey(token, "status"), "active", 0, t)
        m3 == MSet(m2, BotKey(token, "last_active"), t, 0, t)
        m4 == MSet(m3, BotKey(token, "created_at"), t, 0, t)
        m5 == WithStore(m4, storage_incr(StoreOf(m4), "stats:bots_created", t).st)
        n  == Len(m.tasks) + 1
    IN  IF sched = "ok"
        THEN [m |-> [m5 EXCEPT
                       !.tasks = Append(@, [token |-> token, pc |-> "launching",
                                            cancel |-> FALSE, ret |-> TRUE]),
                       !.bot_tasks = DictPut(@, token, n)],
              ret |-> TRUE]
        ELSE [m |-> MSet(m5, BotKey(token, "status"), "error", 0, t),
              ret |-> FALSE]

\* delete_bot: the keys to delete are those keys() returns for "bot:<token>:*"
delete_bot(m, token, td, t) ==
    LET m1 == stop_bot(m, token, td, t).m
        ks == storage_keys(StoreOf(m1), BotKey(token, "*"))
        st == storage_delete(DeleteAll(StoreOf(m1), ks), "webhook:" \o token)
    IN  [m |-> WithStore(m1, st), ret |-> TRUE]

\* get_bot_info; none of the keys it reads is ever stored with a ttl, so the
\* reads leave the store as it is
get_bot_info(m, token, t) ==
    [status      |-> storage_get(StoreOf(m), BotKey(token, "status"), "not_found", t).val,
     created_at  |-> storage_get(StoreOf(m), BotKey(token, "created_at"), None, t).val,
     last_active |-> storage_get(StoreOf(m), BotKey(token, "last_active"), None, t).val,
     memory_used |-> storage_get(StoreOf(m), BotKey(token, "memory"), 0, t).val,
     is_running  |-> token \in DOMAIN m.bots]

\* the first loop of cleanup_memory with `<=` for `<`
\* key.split(sep) for a one-character separator
Split(s, sep) ==
    LET RECURSIVE Fields(_, _)
        Fields(i, cur) ==
            IF i > Len(s) THEN <<cur>>
            ELSE IF SubSeq(s, i, i) = sep THEN <<cur>> \o Fields(i + 1, "")
            ELSE Fields(i + 1, cur \o SubSeq(s, i, i))
    IN  Fields(1, "")

\* s[:n]
Prefix(s, n) == IF Len(s) <= n THEN s ELSE SubSeq(s, 1, n)

\* the list of summaries, as a function of the status key each one was built
\* from
get_all_bots(m, t) ==
    LET RECURSIVE Walk(_, _, _)
        Walk(st, todo, acc) ==
            IF todo = {} THEN [st |-> st, acc |-> acc]
            ELSE LET key == CHOOSE k \in todo : TRUE
                     token == Split(key, ":")[2]
                     s == storage_get(st, key, None, t)
                     c == storage_get(s.st, BotKey(token, "created_at"), None, t)
                 IN  Walk(c.st, todo \ {key},
                          DictPut(acc, key,
                                  [token |-> Prefix(token, 10) \o "...",
                                   status |-> s.val,
                                   created_at |-> c.val]))
        r == Walk(StoreOf(m), storage_keys(StoreOf(m), "bot:*:status"), EmptyDict)
    IN  [m |-> WithStore(m, r.st), ret |-> r.acc]

InactiveBots_le(m, t) ==
    {tok \in DOMAIN m.bots :
        storage_get(StoreOf(m), BotKey(tok, "last_active"), 0, t).val
            <= t - InactivityThreshold}

\* cleanup_memory, first loop: the tokens of bots whose last_active is older
\* than the cutoff
InactiveBots(m, t) ==
    {tok \in DOMAIN m.bots :
        storage_get(StoreOf(m), BotKey(tok, "last_active"), 0, t).val
            < t - InactivityThreshold}

\* cleanup_memory, second loop: stop_bot on each of them; tds gives the
\* teardown outcome of each token
RECURSIVE StopAll(_, _, _, _)
StopAll(m, toks, tds, t) ==
    IF toks = {} THEN m
    ELSE LET tok == CHOOSE x \in toks : TRUE
         IN  StopAll(stop_bot(m, tok, tds[tok], t).m, toks \ {tok}, tds, t)

cleanup_memory(m, tds, t) ==
    LET m1 == StopAll(m, InactiveBots(m, t), tds, t)
    IN  WithStore(m1, cleanup_expired(StoreOf(m1), t).st)

RECURSIVE PingAll(_, _, _)
PingAll(m, toks, t) ==
    IF toks = {} THEN m
    ELSE LET tok == CHOOSE x \in toks : TRUE
         IN  PingAll(MSet(m, BotKey(tok, "last_active"), t, 0, t), toks \ {tok}, t)

\* ping_active_bots that also marks the bots it pings as active
ping_active_bots_marks(m, t) ==
    LET RECURSIVE Mark(_, _)
        Mark(mm, toks) ==
            IF toks = {} THEN mm
            ELSE LET tok == CHOOSE x \in toks : TRUE
                 IN  Mark(MSet(mm, BotKey(tok, "status"), "active", 0, t),
                          toks \ {tok})
    IN  Mark(PingAll(m, DOMAIN m.bots, t), DOMAIN m.bots)

\* ping_active_bots that pings every token of the store, running or not
ping_active_bots_all(m, t) ==
    PingAll(m, {tok \in Tokens : BotKey(tok, "status") \in DOMAIN m.data}, t)

ping_active_bots(m, t) == PingAll(m, DOMAIN m.bots, t)

\* webhook_handler returns the "ok" field of its answer
webhook_handler(m, token, update, t) ==
    LET r == storage_get(StoreOf(m), BotKey(token, "status"), None, t)
        m0 == WithStore(m, r.st)
    IN  IF r.val # "active"
        THEN [m |-> m0, ret |-> FALSE]
        ELSE [m |-> MSet(MSet(m0, BotKey(token, "last_active"), t, 0, t),
                         BotKey(token, "last_update"), update, LastUpdateTTL, t),
              ret |-> TRUE]

(***************************************************************************)
(* Specifications Spec and SpecTimed: the request handlers, the two        *)
(* daemons and the run_bot tasks, interleaved.  A handler or a daemon pass *)
(* is one step; a run_bot task takes its steps in between.                 *)
(***************************************************************************)
Updates == {"u"}
\* the clock advances by the inactivity threshold, or one second more
TickSteps == {InactivityThreshold, InactivityThreshold + 1}

Apply(m) ==
    /\ data' = m.data
    /\ expiry' = m.expiry
    /\ bots' = m.bots
    /\ bot_tasks' = m.bot_tasks
    /\ tasks' = m.tasks
    /\ live' = m.live

\* the number of start_bot calls made so far
Starts == storage_get(Store, "stats:bots_created", 0, now).val

TeardownsFor(token) == IF token \in DOMAIN bots THEN Teardowns ELSE {"ok"}

\* upload_bot: POST /api/upload with a valid token and code
Upload(token, code, td, sched) ==
    LET r == start_bot(Mgr, token, code, td, sched, now)
    IN  /\ Starts < MaxStarts
        /\ Apply(r.m)
        /\ last' = [op |-> "start_bot", token |-> token, ret |-> r.ret]
        /\ UNCHANGED <<stats, now, thr, due, written>>

\* control_bot, action start: restarts from the stored code, if there is one
ControlStart(token, td, sched) ==
    LET c == storage_get(Store, BotKey(token, "code"), None, now)
        r == start_bot(WithStore(Mgr, c.st), token, c.val, td, sched, now)
    IN  /\ Starts < MaxStarts
        /\ IF c.val = None
           THEN /\ Apply(WithStore(Mgr, c.st))
                /\ last' = [op |-> "control_start", token |-> token, ret |-> FALSE]
           ELSE /\ Apply(r.m)
                /\ last' = [op |-> "start_bot", token |-> token, ret |-> r.ret]
        /\ UNCHANGED <<stats, now, thr, due, written>>

\* control_bot, action stop
ControlStop(token, td) ==
    LET r == stop_bot(Mgr, token, td, now)
    IN  /\ Apply(r.m)
        /\ last' = [op |-> "stop_bot", token |-> token, ret |-> r.ret]
        /\ UNCHANGED <<stats, now, thr, due, written>>

\* control_bot, action delete
ControlDelete(token, td) ==
    LET r == delete_bot(Mgr, token, td, now)
    IN  /\ Apply(r.m)
        /\ last' = [op |-> "delete_bot", token |-> token, ret |-> r.ret,
                    uploaded |-> storage_exists(Store, BotKey(token, "code"))]
        /\ UNCHANGED <<stats, now, thr, due, written>>

\* the "stats" object of get_stats
get_stats ==
    [bots_created |-> stats.bots_created,
     bots_active |-> Cardinality(DOMAIN bots),
     storage_items |-> Cardinality(DOMAIN data)]

\* control_bot, action status
ControlStatus(token) ==
    /\ last' = [op |-> "get_bot_info", token |-> token,
                ret |-> get_bot_info(Mgr, token, now)]
    /\ UNCHANGED <<data, expiry, stats, bots, bot_tasks, tasks, live, now, thr, due, written>>

Webhook(token, update) ==
    LET r == webhook_handler(Mgr, token, update, now)
    IN  /\ Apply(r.m)
        /\ last' = [op |-> "webhook", token |-> token, ret |-> r.ret]
        /\ UNCHANGED <<stats, now, thr, due, written>>

\* one pass of cleanup_worker (or POST /api/cleanup)
Reaper(tds) ==
    LET m == cleanup_memory(Mgr, tds, now)
    IN  /\ Apply(m)
        /\ UNCHANGED stats
        /\ last' = [op |-> "cleanup_memory", stopped |-> InactiveBots(Mgr, now)]
        /\ UNCHANGED <<now, thr, due, written>>

\* one pass of keep_alive_worker
Pinger ==
    /\ Apply(ping_active_bots(Mgr, now))
    /\ last' = [op |-> "ping_active_bots"]
    /\ UNCHANGED <<stats, now, thr, due, written>>

\* run_bot: create_bot_instance returned an application, which is running
LaunchOk(n) ==
    /\ tasks[n].pc = "launching"
    /\ bots' = DictPut(bots, tasks[n].token, n)
    /\ live' = live \cup {n}
    /\ tasks' = [tasks EXCEPT ![n].pc = "looping"]
    /\ last' = [op |-> "launch_ok"]
    /\ UNCHANGED <<data, expiry, stats, bot_tasks, now, thr, due, written>>

\* run_bot without the else branch of line 252: the status is not written
LaunchFail_silent(n) ==
    /\ tasks[n].pc = "launching"
    /\ tasks' = [tasks EXCEPT ![n].pc = "done", ![n].cancel = FALSE]
    /\ last' = [op |-> "launch_fail", task |-> n]
    /\ UNCHANGED <<data, expiry, stats, bots, bot_tasks, live, now, thr, due, written>>

\* run_bot marking every known bot as failed, not only its own
LaunchFail_global(n) ==
    LET RECURSIVE Fail(_, _)
        Fail(st, toks) ==
            IF toks = {} THEN st
            ELSE LET tok == CHOOSE x \in toks : TRUE
                 IN  Fail(storage_set(st, BotKey(tok, "status"), "error", 0, now),
                          toks \ {tok})
        st == Fail(Store, {tok \in Tokens : BotKey(tok, "status") \in DOMAIN data})
    IN  /\ tasks[n].pc = "launching"
        /\ data' = st.data
        /\ expiry' = st.expiry
        /\ tasks' = [tasks EXCEPT ![n].pc = "done", ![n].cancel = FALSE]
        /\ last' = [op |-> "launch_fail", task |-> n]
        /\ UNCHANGED <<stats, bots, bot_tasks, live, now, thr, due, written>>

\* run_bot: create_bot_instance returned None
LaunchFail(n) ==
    LET st == storage_set(Store, BotKey(tasks[n].token, "status"), "error", 0, now)
    IN  /\ tasks[n].pc = "launching"
        /\ data' = st.data
        /\ expiry' = st.expiry
        /\ tasks' = [tasks EXCEPT ![n].pc = "done", ![n].cancel = FALSE]
        /\ last' = [op |-> "launch_fail", task |-> n]
        /\ UNCHANGED <<stats, bots, bot_tasks, live, now, thr, due, written>>

\* run_bot: `while token in self.bots` finds the token gone
LoopExit(n) ==
    /\ tasks[n].pc = "looping"
    /\ tasks[n].token \notin DOMAIN bots
    /\ tasks' = [tasks EXCEPT ![n].pc = "done", ![n].cancel = FALSE]
    /\ last' = [op |-> "loop_exit"]
    /\ UNCHANGED <<data, expiry, stats, bots, bot_tasks, live, now, thr, due, written>>

\* run_bot: the task observes the cancellation requested by stop_bot.  The
\* request comes from another thread than the task's loop, so the task may
\* as well never observe it and take its other steps instead.
TaskCancelled(n) ==
    /\ tasks[n].pc \in {"launching", "looping"}
    /\ tasks[n].cancel
    /\ tasks' = [tasks EXCEPT ![n].pc = "done", ![n].cancel = FALSE]
    /\ last' = [op |-> "task_cancelled"]
    /\ UNCHANGED <<data, expiry, stats, bots, bot_tasks, live, now, thr, due, written>>

Tick(d) ==
    /\ now + d <= StartTime + MaxElapsed
    /\ now' = now + d
    /\ last' = [op |-> "tick"]
    /\ UNCHANGED <<data, expiry, stats, bots, bot_tasks, tasks, live, thr, due, written>>

\* the steps of upload and stop, of the daemons and of the tasks, for the
\* tokens toks
NextOn(toks) ==
    \/ \E tok \in toks, c \in Codes, sc \in Schedulings :
           \E td \in TeardownsFor(tok) : Upload(tok, c, td, sc)
    \/ \E tok \in toks : \E td \in TeardownsFor(tok) : ControlStop(tok, td)
    \/ \E tds \in [InactiveBots(Mgr, now) -> Teardowns] : Reaper(tds)
    \/ Pinger
    \/ \E n \in DOMAIN tasks : LaunchOk(n)
    \/ \E n \in DOMAIN tasks : LaunchFail(n)
    \/ \E n \in DOMAIN tasks : LoopExit(n)
    \/ \E n \in DOMAIN tasks : TaskCancelled(n)

\* GET /api/list
ListBots ==
    LET r == get_all_bots(Mgr, now)
    IN  /\ Apply(r.m)
        /\ last' = [op |-> "get_all_bots", ret |-> r.ret]
        /\ UNCHANGED <<stats, now, thr, due, written>>

\* GET /api/stats
Stats ==
    /\ last' = [op |-> "get_stats", ret |-> get_stats]
    /\ UNCHANGED <<data, expiry, stats, bots, bot_tasks, tasks, live, now, thr, due, written>>

\* Spec: the lifecycle of the bots of Tokens at one instant of the clock
Next ==
    \/ NextOn(Tokens)
    \/ ListBots
    \/ Stats
    \/ \E tok \in Tokens, sc \in Schedulings :
           \E td \in TeardownsFor(tok) : ControlStart(tok, td, sc)
    \/ \E tok \in Tokens : \E td \in TeardownsFor(tok) : ControlDelete(tok, td)
    \/ \E tok \in Tokens : ControlStatus(tok)

Spec == Init /\ [][Next]_vars

\* SpecTimed: the lifecycle of one bot while the clock advances and inbound
\* events arrive on its webhook
TimedTokens == {"1:a"}

NextTimed ==
    \/ NextOn(TimedTokens)
    \/ \E tok \in TimedTokens, sc \in Schedulings :
           \E td \in TeardownsFor(tok) : ControlStart(tok, td, sc)
    \/ \E tok \in TimedTokens : \E td \in TeardownsFor(tok) : ControlDelete(tok, td)
    \/ \E tok \in TimedTokens : ControlStatus(tok)
    \/ \E tok \in TimedTokens, u \in Updates : Webhook(tok, u)
    \/ \E d \in TickSteps : Tick(d)

SpecTimed == Init /\ [][NextTimed]_vars

(***************************************************************************)
(* Specification SpecIdle: the two daemon threads on their periods.  Each  *)
(* thread runs its pass and sleeps; the clock advances to the next wake-up *)
(* only when no thread is overdue and no launch is pending, so that both   *)
(* daemons run on time.  The bot is uploaded when the process starts and   *)
(* no inbound event ever arrives.                                          *)
(***************************************************************************)
\* keep_alive_worker: ping_active_bots(); time.sleep(15)
KeepAliveWorker ==
    /\ now >= due.ping
    /\ Apply(ping_active_bots(Mgr, now))
    /\ due' = [due EXCEPT !.ping = now + PingerPeriod]
    /\ last' = [op |-> "ping_active_bots"]
    /\ UNCHANGED <<stats, now, thr, written>>

\* cleanup_worker: cleanup_memory(); gc.collect(); time.sleep(30)
CleanupWorker(tds) ==
    /\ now >= due.reap
    /\ Apply(cleanup_memory(Mgr, tds, now))
    /\ due' = [due EXCEPT !.reap = now + ReaperPeriod]
    /\ last' = [op |-> "cleanup_memory", stopped |-> InactiveBots(Mgr, now)]
    /\ UNCHANGED <<stats, now, thr, written>>

\* the earlier of the two wake-up instants
NextWake == IF due.ping <= due.reap THEN due.ping ELSE due.reap

IdleTick ==
    /\ now < NextWake
    /\ \A n \in DOMAIN tasks : tasks[n].pc # "launching"
    /\ NextWake <= StartTime + MaxIdleElapsed
    /\ now' = NextWake
    /\ last' = [op |-> "tick"]
    /\ UNCHANGED <<data, expiry, stats, bots, bot_tasks, tasks, live, thr, due, written>>

NextIdle ==
    \/ \E tok \in TimedTokens, c \in Codes, sc \in Schedulings :
           \E td \in TeardownsFor(tok) : now = StartTime /\ Upload(tok, c, td, sc)
    \/ \E n \in DOMAIN tasks : LaunchOk(n)
    \/ \E n \in DOMAIN tasks : LaunchFail(n)
    \/ \E n \in DOMAIN tasks : LoopExit(n)
    \/ \E n \in DOMAIN tasks : TaskCancelled(n)
    \/ KeepAliveWorker
    \/ \E tds \in [InactiveBots(Mgr, now) -> Teardowns] : CleanupWorker(tds)
    \/ IdleTick

SpecIdle == Init /\ [][NextIdle]_vars

(***************************************************************************)
(* Specification SpecStamp: the writers of last_active, thread by thread.  *)
(* `storage.set(key, time.time())` evaluates time.time() and then calls    *)
(* set; the threads hold no lock, so another thread may run in between.    *)
(* Thread PingThread is keep_alive_worker, the others serve /webhook.      *)
(***************************************************************************)
PingThread == 1
HookThreads == 2..NumThreads

\* ping_active_bots, line 174: time.time() is evaluated for a token of bots
PingStamp(token) ==
    /\ thr[PingThread].pc = "idle"
    /\ token \in DOMAIN bots
    /\ thr' = [thr EXCEPT ![PingThread] = [pc |-> "read", val |-> now, ret |-> 0]]
    /\ last' = [op |-> "ping_stamp", token |-> token]
    /\ UNCHANGED <<data, expiry, stats, bots, bot_tasks, tasks, live, now, due, written>>

\* ping_active_bots, lines 174-177: set stores the value, status is read
PingWrite(token) ==
    LET st == storage_set(Store, BotKey(token, "last_active"), thr[PingThread].val, 0, now)
        r == storage_get(st, BotKey(token, "status"), None, now)
    IN  /\ thr[PingThread].pc = "read"
        /\ data' = r.st.data
        /\ expiry' = r.st.expiry
        /\ thr' = [thr EXCEPT ![PingThread] = Idle]
        /\ last' = [op |-> "ping_write", token |-> token]
        /\ UNCHANGED <<stats, bots, bot_tasks, tasks, live, now, due, written>>

\* webhook_handler, lines 489-494: the status is active, time.time() is
\* evaluated
HookStamp(i, token) ==
    LET r == storage_get(Store, BotKey(token, "status"), None, now)
    IN  /\ thr[i].pc = "idle"
        /\ r.val = "active"
        /\ data' = r.st.data
        /\ expiry' = r.st.expiry
        /\ thr' = [thr EXCEPT ![i] = [pc |-> "read", val |-> now, ret |-> 0]]
        /\ last' = [op |-> "webhook_stamp", token |-> token]
        /\ UNCHANGED <<stats, bots, bot_tasks, tasks, live, now, due, written>>

\* webhook_handler, lines 494-502: set stores the value, last_update is saved
HookWrite(i, token, update) ==
    LET st == storage_set(Store, BotKey(token, "last_active"), thr[i].val, 0, now)
        su == storage_set(st, BotKey(token, "last_update"), update, LastUpdateTTL, now)
    IN  /\ thr[i].pc = "read"
        /\ data' = su.data
        /\ expiry' = su.expiry
        /\ thr' = [thr EXCEPT ![i] = Idle]
        /\ last' = [op |-> "webhook_write", token |-> token]
        /\ UNCHANGED <<stats, bots, bot_tasks, tasks, live, now, due, written>>

StampTick ==
    /\ now < StartTime + MaxStampElapsed
    /\ now' = now + 1
    /\ last' = [op |-> "tick"]
    /\ UNCHANGED <<data, expiry, stats, bots, bot_tasks, tasks, live, thr, due, written>>

NextStamp ==
    \/ \E tok \in TimedTokens, code \in Codes : Upload(tok, code, "ok", "ok")
    \/ \E n \in DOMAIN tasks : LaunchOk(n)
    \/ \E tok \in TimedTokens : PingStamp(tok)
    \/ \E tok \in TimedTokens : PingWrite(tok)
    \/ \E i \in HookThreads, tok \in TimedTokens : HookStamp(i, tok)
    \/ \E i \in HookThreads, tok \in TimedTokens, u \in Updates : HookWrite(i, tok, u)
    \/ StampTick

SpecStamp == Init /\ [][NextStamp]_vars

(***************************************************************************)
(* Claims about BotManager.                                                *)
(***************************************************************************)
Status(token) == storage_get(Store, BotKey(token, "status"), "not_found", now).val

Launching(token) ==
    \E n \in DOMAIN tasks : tasks[n].token = token /\ tasks[n].pc = "launching"

\* the running instances created for token
LiveOf(token) == {n \in live : tasks[n].token = token}

\* k starts with p
HasPrefix(k, p) == Len(k) >= Len(p) /\ SubSeq(k, 1, Len(p)) = p

\* C1: once no launch is pending, every token has at most one running
\* instance, and a running instance is the one the handle map holds (no
\* instance of an earlier start is left running unreferenced).
C1_AtMostOneInstance ==
    (\A n \in DOMAIN tasks : tasks[n].pc # "launching") =>
        \A tok \in Tokens :
            /\ Cardinality(LiveOf(tok)) <= 1
            /\ \A n \in LiveOf(tok) : tok \in DOMAIN bots /\ bots[tok] = n

\* C2: after an upload of T, delete(T) leaves no store key in T's namespace
\* "bot:T:" and status(T) reports not_found.
C2_CascadingDelete ==
    (last.op = "delete_bot" /\ last.uploaded) =>
        /\ \A k \in DOMAIN data : ~HasPrefix(k, BotKey(last.token, ""))
        /\ get_bot_info(Mgr, last.token, now).status = "not_found"

\* C3: stop(T) returns success and leaves the stored status of T stopped,
\* whatever the prior state of T and also when the teardown raises.
C3_StopAlwaysStopped ==
    last.op = "stop_bot" =>
        /\ last.ret = TRUE
        /\ BotKey(last.token, "status") \in DOMAIN data
        /\ data[BotKey(last.token, "status")] = "stopped"

\* C3 witness: stop(T) has returned for a running T whose teardown raised
\* (only then does the handle survive the call)
C3_Witness ==
    /\ last.op = "stop_bot"
    /\ last.token \in DOMAIN bots
    /\ data[BotKey(last.token, "status")] = "stopped"

\* C4: when stop(T) returns, neither the handle map nor the task map holds
\* an entry for T.
C4_StopRemovesHandle ==
    last.op = "stop_bot" =>
        /\ last.token \notin DOMAIN bots
        /\ last.token \notin DOMAIN bot_tasks

\* C5: when create_bot_instance yields no instance, the status of T is
\* error and the start call that scheduled the launch returned failure.
C5_LaunchFailure ==
    last.op = "launch_fail" =>
        /\ Status(tasks[last.task].token) = "error"
        /\ tasks[last.task].ret = FALSE

\* C6 as claimed: a token whose stored status is active has a handle in
\* the handle map.
C6_ActiveImpliesHandle ==
    \A tok \in Tokens : Status(tok) = "active" => tok \in DOMAIN bots

\* C6 as amended: a token whose stored status is active has a handle of a
\* running instance in the handle map, or a launch of it is still pending.
C6_ActiveImpliesHandleOrLaunch ==
    \A tok \in Tokens :
        Status(tok) = "active" =>
            \/ tok \in DOMAIN bots /\ bots[tok] \in live
            \/ Launching(tok)

\* C6 witness: an active token without handle, its launch pending
C6_Witness ==
    \E tok \in Tokens :
        Status(tok) = "active" /\ tok \notin DOMAIN bots /\ Launching(tok)

\* C10: a Reaper pass invokes stop for T exactly when T has a handle and its
\* last_active is older than now minus the inactivity threshold; a bot with
\* a handle whose last_active is within the threshold keeps its handle, its
\* instance and its status through the pass.
C10_ReaperSweep ==
    [][last'.op = "cleanup_memory" =>
         \A tok \in TimedTokens :
             LET stale == /\ tok \in DOMAIN bots
                          /\ data[BotKey(tok, "last_active")]
                                 < now - InactivityThreshold
             IN  /\ tok \in last'.stopped <=> stale
                 /\ stale => data'[BotKey(tok, "status")] = "stopped"
                 /\ (tok \in DOMAIN bots /\ ~stale) =>
                        /\ tok \in DOMAIN bots'
                        /\ bots'[tok] = bots[tok]
                        /\ (bots[tok] \in live') <=> (bots[tok] \in live)
                        /\ data'[BotKey(tok, "status")] = data[BotKey(tok, "status")]
    ]_vars

\* C10 witness: a Reaper pass has just stopped a bot
C10_Witness ==
    /\ last.op = "cleanup_memory"
    /\ last.stopped # {}

\* C11: with both daemons on their periods, a bot that has had no inbound
\* event for longer than the inactivity threshold has been stopped once two
\* further Reaper periods have gone by: it has no handle any more.  (In
\* SpecIdle no event arrives, so the bot is idle since its created_at.)
C11_IdleBound ==
    \A tok \in TimedTokens :
        (/\ Status(tok) = "active"
         /\ BotKey(tok, "created_at") \in DOMAIN data
         /\ now - data[BotKey(tok, "created_at")]
                > InactivityThreshold + 2 * ReaperPeriod)
            => tok \notin DOMAIN bots

\* the status transitions of the claimed state machine
ClaimedTransitions ==
    {<<"not_found", "active">>, <<"active", "stopped">>, <<"active", "error">>,
     <<"stopped", "active">>, <<"error", "active">>}

\* the transitions the operations make besides: a stop or delete of a token
\* that is unknown or in error, and a launch that fails after a stop
FurtherTransitions ==
    {<<"not_found", "stopped">>, <<"error", "stopped">>, <<"stopped", "error">>}

\* start_bot writes the status twice when scheduling raises (active, then
\* error) and up to three times on a restart (stopped, active, error): as
\* one step it is held to end in active or error
StartStep(tok) == last'.op = "start_bot" /\ Status(tok)' \in {"active", "error"}

C13_IdempotentDelete ==
    (last.op = "delete_bot" /\ ~last.uploaded) =>
        /\ last.ret = TRUE
        /\ get_bot_info(Mgr, last.token, now).status = "not_found"
        /\ \A k \in DOMAIN data : ~HasPrefix(k, BotKey(last.token, ""))

\* C14: listAll returns exactly one summary for every token that has a
\* status key in the store, carrying that token's status and creation time,
\* and the reported count is the number of such tokens.
C14_ListAll ==
    last.op = "get_all_bots" =>
        LET listed == {tok \in Tokens : BotKey(tok, "status") \in DOMAIN data}
        IN  /\ DOMAIN last.ret = {BotKey(tok, "status") : tok \in listed}
            /\ \A tok \in listed :
                   /\ last.ret[BotKey(tok, "status")].status = Status(tok)
                   /\ last.ret[BotKey(tok, "status")].created_at =
                          storage_get(Store, BotKey(tok, "created_at"), None, now).val

\* C20: with creations run one at a time, after n start calls the
\* statistics report bots_created = n (Starts is the number of start_bot
\* calls so far).
C20_CreationCounter ==
    last.op = "get_stats" => last.ret.bots_created = Starts

\* C15: a Pinger pass changes nothing but the last_active entries of the
\* tokens that have a handle: statuses, handle map, task map, tasks and every
\* other store key stay as they were, and no bot is stopped.
C15_PingerFrame ==
    [][last'.op = "ping_active_bots" =>
         /\ bots' = bots
         /\ bot_tasks' = bot_tasks
         /\ tasks' = tasks
         /\ live' = live
         /\ expiry' = expiry
         /\ DOMAIN data' = DOMAIN data
         /\ \A k \in DOMAIN data :
                data'[k] # data[k] =>
                    \E tok \in DOMAIN bots : k = BotKey(tok, "last_active")
         /\ \A tok \in DOMAIN bots : data'[BotKey(tok, "last_active")] = now
    ]_vars

\* C15 witness: a Pinger pass has just refreshed the last_active of a
\* running bot created earlier
C15_Witness ==
    /\ last.op = "ping_active_bots"
    /\ \E tok \in DOMAIN bots :
           /\ Status(tok) = "active"
           /\ data[BotKey(tok, "last_active")] = now
           /\ data[BotKey(tok, "created_at")] < now

\* C16: a failure in the launch task of one token changes that token's
\* status to error and nothing else: every other store key, the handle map,
\* the task map, the running instances and the other tasks are unchanged.
C16_Isolation ==
    [][last'.op = "launch_fail" =>
         \A n \in DOMAIN tasks, tok \in Tokens :
             (n = last'.task /\ tok = tasks[n].token) =>
             /\ Status(tok)' = "error"
             /\ expiry' = expiry
             /\ \A k \in DOMAIN data' :
                    k # BotKey(tok, "status") =>
                        k \in DOMAIN data /\ data'[k] = data[k]
             /\ DOMAIN data \subseteq DOMAIN data'
             /\ bots' = bots
             /\ bot_tasks' = bot_tasks
             /\ live' = live
             /\ \A i \in DOMAIN tasks : i # n => tasks'[i] = tasks[i]
    ]_vars

\* C16 witness: the launch of one bot has just failed while another bot is
\* running with status active
C16_Witness ==
    /\ last.op = "launch_fail"
    /\ Status(tasks[last.task].token) = "error"
    /\ \E tok \in DOMAIN bots :
           /\ tok # tasks[last.task].token
           /\ bots[tok] \in live
           /\ Status(tok) = "active"

\* no launch is pending (operations are atomic, so none is in progress)
Quiescent == \A n \in DOMAIN tasks : tasks[n].pc # "launching"

\* C18: in every quiescent state a handle for T exists only if status(T) is
\* active; in particular a stop issued while the launch of T is in flight
\* leaves no handle behind.
C18_StopDuringLaunch ==
    Quiescent => \A tok \in DOMAIN bots : Status(tok) = "active"

\* C19: a key last written without ttl (by set or incr) and not deleted
\* since is still in the store with the value written, however far the
\* clock has advanced and whatever get and cleanup_expired have run.
C19_NoTtlNeverExpires ==
    \A k \in DOMAIN written :
        written[k].exp = 0 => (k \in DOMAIN data /\ data[k] = written[k].v)

\* C17: while T stays active its last_active never decreases, whichever way
\* its writers (each reading the clock, then writing the value) interleave.
C17_LastActiveMonotonic ==
    [][\A tok \in TimedTokens :
           (/\ Status(tok) = "active"
            /\ Status(tok)' = "active"
            /\ BotKey(tok, "last_active") \in DOMAIN data
            /\ BotKey(tok, "last_active") \in DOMAIN data')
               => data'[BotKey(tok, "last_active")] >= data[BotKey(tok, "last_active")]
    ]_vars

====
